---- MODULE Spec2Model ----
(***************************************************************************)
(* The live voice session of the check-in application                      *)
(* (src/components/LiveSession.tsx) as a state machine: the effect that    *)
(* starts the session, the transport callbacks (onopen, onmessage,         *)
(* onclose, onerror), the capture callback, the playback scheduling, the   *)
(* transcript assembly, the effect's cleanup and handleFinish; and the     *)
(* handlers of App (src/unnamed/part_000) that decide when a LiveSession   *)
(* is mounted.                                                             *)
(*                                                                         *)
(* Strings are sequences of tokens; "a" and " " are the characters a       *)
(* transcription delta is made of, "\n" is the line break and "user",      *)
(* "model", ": " are the pieces of the rendered prefix.  Times are         *)
(* integers (ticks of the output context's clock).                         *)
(***************************************************************************)
EXTENDS Integers, Sequences, FiniteSets, TLC

\* ---------------------------------------------------------------- bounds
MaxMsgs == 2
MaxClock == 2
MaxDur == 2
MaxFrames == 1
MaxSchedMsgs == 3

\* ------------------------------------------------------------ input sets
Chars == {"a", " "}
Deltas == {<<>>} \cup {<<c>> : c \in Chars}
Opt(S) == {<<>>} \cup {<<x>> : x \in S}
Chunks == {[ok |-> FALSE, dur |-> 0]} \cup {[ok |-> TRUE, dur |-> d] : d \in 1..MaxDur}
Messages ==
  [outputTranscription : Opt(Deltas), inputTranscription : Opt(Deltas),
   turnComplete : BOOLEAN, audio : Opt(Chunks)]
StartFailures == {"none", "ai", "inputContext", "outputContext"}

VARIABLES
  pc,              \* position of startSession: "init", "getUserMedia", "done"
  status,          \* useState status
  isSpeaking,      \* useState isSpeaking
  isActive,        \* the effect's isActive flag
  inputAudioContext, outputAudioContext,  \* "null", "open", "closing", "closed"
  streamRef,       \* "null", "live", "stopped"
  sessionPromise,  \* "null", "pending", "resolved"
  closeThen,       \* cleanup registered sessionPromise.then(close), not yet run
  conn,            \* the transport: "none", "connecting", "open", "closing", "failed", "closed"
  releases,        \* number of release calls made on each resource
  scriptProcessor, \* onaudioprocess is installed
  nBlocks,         \* capture blocks the script processor delivered
  sent,            \* frames handed to session.sendRealtimeInput
  nextStartTime,   \* nextStartTimeRef
  clock,           \* outputAudioContext.currentTime
  decoding,        \* chunks whose decodeAudioData is pending (onTime: line 120
                   \* found the clock not past the cursor)
  scheduled,       \* every source.start(t), in the order made
  sources,         \* sourcesRef (ids of the sources)
  nAudio,          \* audio chunks received so far (the next chunk's id - 1)
  transcript,      \* transcriptRef
  currentInputTrans, currentOutputTrans,
  deltasIn, deltasOut,   \* every delta text handled, per role, in order
  flushedIn, flushedOut, \* how many of them the last turn-complete covered
  turns,           \* turn-complete markers handled
  nMsgs,           \* messages delivered
  sessionEnd,      \* what handleFinish passed to onSessionEnd (<<>>: nothing yet)
  analysed,        \* what finishInterview passed to analyzeInterview
  appState,        \* App: appState
  inputMode,       \* App: inputMode
  saved,           \* App: checkIns is not empty
  startCause       \* the App handler whose render mounted the LiveSession

lifeVars == <<pc, status, isActive, inputAudioContext, outputAudioContext, streamRef,
              sessionPromise, closeThen, conn, releases, scriptProcessor, nBlocks, sent>>
playVars == <<isSpeaking, nextStartTime, decoding, scheduled, sources, nAudio>>
textVars == <<transcript, currentInputTrans, currentOutputTrans, deltasIn, deltasOut,
              flushedIn, flushedOut, turns>>
appVars == <<appState, inputMode, saved, startCause>>
endVars == <<sessionEnd, analysed, appVars>>
vars == <<lifeVars, playVars, textVars, endVars, clock, nMsgs>>

Resources == {"mic", "inputContext", "outputContext", "session"}

\* part_000 lines 277-283: the LiveSession is rendered.
Mounted == appState = "NEW_ENTRY" /\ inputMode = "live"

\* A LiveSession that has just been mounted: its state and refs.
SessionInit ==
  /\ pc = "init"
  /\ status = "connecting"
  /\ isSpeaking = FALSE
  /\ isActive = TRUE
  /\ inputAudioContext = "null"
  /\ outputAudioContext = "null"
  /\ streamRef = "null"
  /\ sessionPromise = "null"
  /\ closeThen = FALSE
  /\ conn = "none"
  /\ releases = [r \in Resources |-> 0]
  /\ scriptProcessor = FALSE
  /\ nBlocks = 0
  /\ sent = 0
  /\ nextStartTime = 0
  /\ clock = 0
  /\ decoding = {}
  /\ scheduled = <<>>
  /\ sources = {}
  /\ nAudio = 0
  /\ transcript = <<>>
  /\ currentInputTrans = <<>>
  /\ currentOutputTrans = <<>>
  /\ deltasIn = <<>>
  /\ deltasOut = <<>>
  /\ flushedIn = 0
  /\ flushedOut = 0
  /\ turns = 0
  /\ nMsgs = 0
  /\ sessionEnd = <<>>
  /\ analysed = <<>>

\* The component right after the user chose Live in the new-entry view.
Init ==
  /\ SessionInit
  /\ appState = "NEW_ENTRY"
  /\ inputMode = "live"
  /\ saved = FALSE
  /\ startCause = "startLiveSession"

\* ------------------------------------------------------- startSession
\* Lines 33-42: the synchronous prefix of startSession, up to the await of
\* getUserMedia.  A constructor that throws lands in the catch (148-151).
startSession(fail) ==
  /\ Mounted
  /\ pc = "init"
  /\ inputAudioContext' = IF fail = "ai" THEN "null" ELSE IF fail = "inputContext" THEN "null" ELSE "open"
  /\ outputAudioContext' = IF fail = "none" THEN "open" ELSE "null"
  /\ pc' = IF fail = "none" THEN "getUserMedia" ELSE "done"
  /\ status' = IF fail = "none" THEN status ELSE "error"
  /\ UNCHANGED <<isActive, streamRef, sessionPromise, closeThen, conn, releases,
                 scriptProcessor, nBlocks, sent, playVars, textVars, endVars, clock, nMsgs>>

\* Mutant: the status is set when connect() is called, not when it opens.
getUserMediaResolved_Early ==
  /\ pc = "getUserMedia"
  /\ streamRef' = "live"
  /\ sessionPromise' = "pending"
  /\ conn' = "connecting"
  /\ pc' = "done"
  /\ status' = IF isActive THEN "connected" ELSE status
  /\ UNCHANGED <<isActive, inputAudioContext, outputAudioContext, closeThen,
                 releases, scriptProcessor, nBlocks, sent, playVars, textVars, endVars, clock, nMsgs>>

\* Lines 42-45: getUserMedia resolves; the stream is stored and ai.live.connect
\* is called, whatever isActive is by now.
getUserMediaResolved ==
  /\ pc = "getUserMedia"
  /\ streamRef' = "live"
  /\ sessionPromise' = "pending"
  /\ conn' = "connecting"
  /\ pc' = "done"
  /\ UNCHANGED <<status, isActive, inputAudioContext, outputAudioContext, closeThen,
                 releases, scriptProcessor, nBlocks, sent, playVars, textVars, endVars, clock, nMsgs>>

\* Mutant: the rejection is reported and the connection is made all the same.
getUserMediaRejected_Connects ==
  /\ pc = "getUserMedia"
  /\ status' = "error"
  /\ sessionPromise' = "pending"
  /\ conn' = "connecting"
  /\ pc' = "done"
  /\ UNCHANGED <<isActive, inputAudioContext, outputAudioContext, streamRef,
                 closeThen, releases, scriptProcessor, nBlocks, sent,
                 playVars, textVars, endVars, clock, nMsgs>>

\* Lines 42, 148-151: getUserMedia rejects.
getUserMediaRejected ==
  /\ pc = "getUserMedia"
  /\ status' = "error"
  /\ pc' = "done"
  /\ UNCHANGED <<isActive, inputAudioContext, outputAudioContext, streamRef,
                 sessionPromise, closeThen, conn, releases, scriptProcessor, nBlocks, sent,
                 playVars, textVars, endVars, clock, nMsgs>>

\* ----------------------------------------------------------- transport
\* The transport is a WebSocket owned by the SDK: it opens at most once, delivers
\* messages only after it opened, an error fails it for good, and nothing
\* follows its close.  The SDK resolves the promise of ai.live.connect in the
\* task that delivers onopen, so the callbacks registered with then() on
\* sessionPromise run in that task too.

\* Lines 158: session.close(), as run by the then() callback of the cleanup.
closeSession(c) == IF c \in {"connecting", "open"} THEN "closing" ELSE c

\* Lines 64-92: onopen.
onopen ==
  /\ conn = "connecting"
  /\ sessionPromise' = "resolved"
  /\ status' = IF isActive THEN "connected" ELSE status
  /\ scriptProcessor' =
       IF isActive /\ inputAudioContext # "null" /\ streamRef # "null"
       THEN TRUE ELSE scriptProcessor
  /\ IF closeThen
     THEN /\ conn' = closeSession("open")
          /\ releases' = [releases EXCEPT !["session"] = @ + 1]
          /\ closeThen' = FALSE
     ELSE /\ conn' = "open"
          /\ UNCHANGED <<releases, closeThen>>
  /\ UNCHANGED <<pc, isActive, inputAudioContext, outputAudioContext, streamRef,
                 nBlocks, sent, playVars, textVars, endVars, clock, nMsgs>>

\* Mutant: onclose reports the closure in the status.
onclose_Disconnects ==
  /\ conn \in {"open", "closing", "failed"}
  /\ conn' = "closed"
  /\ status' = "disconnected"
  /\ UNCHANGED <<pc, isActive, inputAudioContext, outputAudioContext, streamRef,
                 sessionPromise, closeThen, releases, scriptProcessor, nBlocks, sent,
                 playVars, textVars, endVars, clock, nMsgs>>

\* Lines 139-141: onclose only logs.
onclose ==
  /\ conn \in {"open", "closing", "failed"}
  /\ conn' = "closed"
  /\ UNCHANGED <<pc, status, isActive, inputAudioContext, outputAudioContext, streamRef,
                 sessionPromise, closeThen, releases, scriptProcessor, nBlocks, sent,
                 playVars, textVars, endVars, clock, nMsgs>>

\* Lines 142-145: onerror.
onerror ==
  /\ conn \in {"connecting", "open", "closing"}
  /\ conn' = "failed"
  /\ status' = "error"
  /\ UNCHANGED <<pc, isActive, inputAudioContext, outputAudioContext, streamRef,
                 sessionPromise, closeThen, releases, scriptProcessor, nBlocks, sent,
                 playVars, textVars, endVars, clock, nMsgs>>

\* Mutant: the callback does not look at isActive.
onaudioprocess_NoGuard ==
  /\ scriptProcessor
  /\ inputAudioContext \in {"open", "closing"}
  /\ nBlocks < MaxFrames
  /\ nBlocks' = nBlocks + 1
  /\ sent' = sent + 1
  /\ UNCHANGED <<pc, status, isActive, inputAudioContext, outputAudioContext, streamRef,
                 sessionPromise, closeThen, conn, releases, scriptProcessor,
                 playVars, textVars, endVars, clock, nMsgs>>

\* Lines 75-87: onaudioprocess; the session is resolved whenever the callback
\* is installed, so the then() callback sends in the same task.
onaudioprocess ==
  /\ scriptProcessor
  /\ inputAudioContext \in {"open", "closing"}
  /\ nBlocks < MaxFrames
  /\ nBlocks' = nBlocks + 1
  /\ sent' = IF isActive THEN sent + 1 ELSE sent
  /\ UNCHANGED <<pc, status, isActive, inputAudioContext, outputAudioContext, streamRef,
                 sessionPromise, closeThen, conn, releases, scriptProcessor,
                 playVars, textVars, endVars, clock, nMsgs>>

\* ------------------------------------------------------------- teardown
\* Lines 159-161: the three device statements of the cleanup, in the order
\* they run.  The statements follow one another with no try around any of them,
\* so a statement that throws ends the cleanup there.
CleanupSteps == <<"mic", "inputContext", "outputContext">>
CleanupFailures == {"none", "mic", "inputContext", "outputContext"}

\* The device statement r is reached and completes when the statement fail throws.
StepRuns(r, fail) ==
  \A i, j \in 1..Len(CleanupSteps) :
    (CleanupSteps[i] = fail /\ CleanupSteps[j] = r) => j < i

\* Lines 156-162: the effect's cleanup, on the life-cycle variables.  The
\* session is closed inside a then() callback, which no later statement
\* depends on.
cleanupEffect(fail) ==
  /\ isActive' = FALSE
  /\ closeThen' = (sessionPromise = "pending")
  /\ conn' = IF sessionPromise = "resolved" THEN closeSession(conn) ELSE conn
  /\ streamRef' = IF streamRef # "null" /\ StepRuns("mic", fail)
                  THEN "stopped" ELSE streamRef
  /\ inputAudioContext' = IF inputAudioContext # "null" /\ StepRuns("inputContext", fail)
                          THEN "closing" ELSE inputAudioContext
  /\ outputAudioContext' = IF outputAudioContext # "null" /\ StepRuns("outputContext", fail)
                           THEN "closing" ELSE outputAudioContext
  /\ releases' =
       [r \in Resources |->
          releases[r] +
            CASE r = "session" -> IF sessionPromise = "resolved" THEN 1 ELSE 0
              [] r = "mic" -> IF streamRef # "null" /\ StepRuns(r, fail) THEN 1 ELSE 0
              [] r = "inputContext" ->
                   IF inputAudioContext # "null" /\ StepRuns(r, fail) THEN 1 ELSE 0
              [] r = "outputContext" ->
                   IF outputAudioContext # "null" /\ StepRuns(r, fail) THEN 1 ELSE 0]
  /\ UNCHANGED <<pc, status, sessionPromise, scriptProcessor, nBlocks, sent>>

\* onCancel (part_000 line 281) unmounts the component, and React runs the
\* cleanup; an unmount can come at any time after the effect has run.
cancel(fail) ==
  /\ pc # "init"
  /\ isActive
  /\ cleanupEffect(fail)
  /\ inputMode' = "text"
  /\ UNCHANGED <<playVars, textVars, sessionEnd, analysed, appState, saved, startCause,
                 clock, nMsgs>>

\* AudioContext.close() completes later.
contextClosed ==
  /\ \/ /\ inputAudioContext = "closing"
        /\ inputAudioContext' = "closed"
        /\ UNCHANGED outputAudioContext
     \/ /\ outputAudioContext = "closing"
        /\ outputAudioContext' = "closed"
        /\ UNCHANGED inputAudioContext
  /\ UNCHANGED <<pc, status, isActive, streamRef, sessionPromise, closeThen, conn,
                 releases, scriptProcessor, nBlocks, sent,
                 playVars, textVars, endVars, clock, nMsgs>>

\* ----------------------------------------------------------- transcript
\* Mutant: the delta is put in front of the accumulated text.
AppendDelta_Prepend(acc, opt) == IF opt # <<>> THEN opt[1] \o acc ELSE acc

\* Mutant: the delta replaces the accumulated text (= for +=).
AppendDelta_Replace(acc, opt) == IF opt # <<>> THEN opt[1] ELSE acc

\* Lines 97-102: acc += transcription.text, when the field is present.
AppendDelta(acc, opt) == IF opt # <<>> THEN acc \o opt[1] ELSE acc

\* Lines 104-111: a non-empty accumulator is pushed as one segment.
Flush(tr, role, acc) ==
  IF acc # <<>> THEN Append(tr, [role |-> role, text |-> acc]) ELSE tr

\* Line 167: `${t.role}: ${t.text}`.
Render(t) == <<t.role, ": ">> \o t.text

\* Line 167: join('\n').
RECURSIVE JoinLines(_)
JoinLines(lines) ==
  IF lines = <<>> THEN <<>>
  ELSE IF Len(lines) = 1 THEN lines[1]
  ELSE lines[1] \o <<"\n">> \o JoinLines(Tail(lines))

Sentinel == <<"User engaged in a silent meditative session.">>

\* Mutant: no fallback for an empty transcript.
finalTranscript_NoFallback ==
  LET joined == JoinLines([i \in 1..Len(transcript) |-> Render(transcript[i])])
      withIn == IF currentInputTrans # <<>>
                THEN joined \o <<"\n", "user", ": ">> \o currentInputTrans ELSE joined
  IN IF currentOutputTrans # <<>>
     THEN withIn \o <<"\n", "model", ": ">> \o currentOutputTrans ELSE withIn

\* Mutant: the pending model text is left out.
finalTranscript_DropPending ==
  LET joined == JoinLines([i \in 1..Len(transcript) |-> Render(transcript[i])])
      withIn == IF currentInputTrans # <<>>
                THEN joined \o <<"\n", "user", ": ">> \o currentInputTrans ELSE joined
  IN IF withIn = <<>> THEN Sentinel ELSE withIn

\* Lines 166-173: the transcript handleFinish compiles.
finalTranscript ==
  LET joined == JoinLines([i \in 1..Len(transcript) |-> Render(transcript[i])])
      withIn == IF currentInputTrans # <<>>
                THEN joined \o <<"\n", "user", ": ">> \o currentInputTrans ELSE joined
      withOut == IF currentOutputTrans # <<>>
                 THEN withIn \o <<"\n", "model", ": ">> \o currentOutputTrans ELSE withIn
  IN IF withOut = <<>> THEN Sentinel ELSE withOut

\* part_000 line 162: !conversation.trim()
Whitespace == {" ", "\n"}
IsBlank(str) == \A i \in 1..Len(str) : str[i] \in Whitespace

\* ------------------------------------------------------------- playback
\* Mutant: the cursor is reset to the clock.
ClampStart_Now(cursor, now) == now

\* Line 120: Math.max(nextStartTimeRef.current, ctx.currentTime).
ClampStart(cursor, now) == IF cursor > now THEN cursor ELSE now

\* Mutant: a turn-complete marker does not clear the indicator.
SpeakingAfterMessage_NoClear(turnComplete, hasAudio, cur) ==
  IF hasAudio THEN TRUE ELSE cur

\* Lines 112 and 118: setIsSpeaking(false) for a turn-complete marker, then
\* setIsSpeaking(true) for an audio chunk; the later call wins.
SpeakingAfterMessage(turnComplete, hasAudio, cur) ==
  IF hasAudio THEN TRUE ELSE IF turnComplete THEN FALSE ELSE cur

\* Lines 93-137: onmessage up to its await; the transport delivers messages
\* while it is open, also after close() was asked for.
onmessage(m) ==
  /\ conn \in {"open", "closing"}
  /\ nMsgs' = nMsgs + 1
  /\ IF ~isActive
     THEN UNCHANGED <<playVars, textVars>>
     ELSE LET out1 == AppendDelta(currentOutputTrans, m.outputTranscription)
              in1 == AppendDelta(currentInputTrans, m.inputTranscription)
              tr1 == Flush(transcript, "user", in1)
              tr2 == Flush(tr1, "model", out1)
              hasAudio == m.audio # <<>> /\ outputAudioContext # "null"
          IN /\ deltasOut' = deltasOut \o m.outputTranscription
             /\ deltasIn' = deltasIn \o m.inputTranscription
             /\ IF m.turnComplete
                THEN /\ transcript' = tr2
                     /\ currentInputTrans' = <<>>
                     /\ currentOutputTrans' = <<>>
                     /\ flushedIn' = Len(deltasIn')
                     /\ flushedOut' = Len(deltasOut')
                     /\ turns' = turns + 1
                ELSE /\ currentInputTrans' = in1
                     /\ currentOutputTrans' = out1
                     /\ UNCHANGED <<transcript, flushedIn, flushedOut, turns>>
             /\ isSpeaking' = SpeakingAfterMessage(m.turnComplete, hasAudio, isSpeaking)
             /\ nextStartTime' = IF hasAudio THEN ClampStart(nextStartTime, clock)
                                 ELSE nextStartTime
             /\ nAudio' = IF hasAudio THEN nAudio + 1 ELSE nAudio
             /\ decoding' = IF hasAudio /\ m.audio[1].ok
                            THEN decoding \cup {[id |-> nAudio + 1, dur |-> m.audio[1].dur,
                                                  onTime |-> clock <= nextStartTime]}
                            ELSE decoding
             /\ UNCHANGED <<scheduled, sources>>
  /\ UNCHANGED <<lifeVars, endVars, clock>>

\* Lines 123-136: decodeAudioData resolves and the handler resumes; pending
\* decodes resume in any order.
decodeResolved(c) ==
  /\ c \in decoding
  /\ decoding' = decoding \ {c}
  /\ scheduled' = Append(scheduled, [id |-> c.id, start |-> nextStartTime, dur |-> c.dur])
  /\ nextStartTime' = nextStartTime + c.dur
  /\ sources' = sources \cup {c.id}
  /\ UNCHANGED <<lifeVars, isSpeaking, nAudio, textVars, endVars, clock, nMsgs>>

\* The end of the scheduled source with this id.
EndOf(id) ==
  LET i == CHOOSE j \in 1..Len(scheduled) : scheduled[j].id = id
  IN scheduled[i].start + scheduled[i].dur

\* Lines 129-132: the 'ended' listener of a source.
ended(id) ==
  /\ id \in sources
  /\ clock >= EndOf(id)
  /\ sources' = sources \ {id}
  /\ isSpeaking' = IF sources' = {} THEN FALSE ELSE isSpeaking
  /\ UNCHANGED <<lifeVars, nextStartTime, decoding, scheduled, nAudio, textVars,
                 endVars, clock, nMsgs>>

\* The output context's clock advances while the context runs.
tick ==
  /\ outputAudioContext = "open"
  /\ clock < MaxClock
  /\ clock' = clock + 1
  /\ UNCHANGED <<lifeVars, playVars, textVars, endVars, nMsgs>>

\* --------------------------------------------------------------- finish
\* Lines 165-176 with part_000 lines 158-165 and 280: the button is rendered in
\* status connected; onSessionEnd is finishInterview, which returns early on a
\* blank conversation and otherwise leaves the new-entry view, which unmounts
\* the component.
handleFinish(fail) ==
  /\ isActive
  /\ status = "connected"
  /\ sessionEnd' = <<finalTranscript>>
  /\ IF IsBlank(finalTranscript)
     THEN UNCHANGED <<lifeVars, analysed, appState>>
     ELSE /\ analysed' = Append(analysed, finalTranscript)
          /\ appState' = "ANALYZING"
          /\ cleanupEffect(fail)
  /\ UNCHANGED <<playVars, textVars, inputMode, saved, startCause, clock, nMsgs>>

\* ------------------------------------------------------------------ App
\* The handlers of App (part_000) that set appState or inputMode.  A render
\* that shows the new-entry view in mode live when it did not before mounts a
\* new LiveSession, whose effect then starts a session.
sessionVars == <<lifeVars, playVars, textVars, sessionEnd, analysed, clock, nMsgs>>

\* The same values, taken by the state and refs of a newly mounted LiveSession.
SessionReset ==
  /\ pc' = "init"
  /\ status' = "connecting"
  /\ isSpeaking' = FALSE
  /\ isActive' = TRUE
  /\ inputAudioContext' = "null"
  /\ outputAudioContext' = "null"
  /\ streamRef' = "null"
  /\ sessionPromise' = "null"
  /\ closeThen' = FALSE
  /\ conn' = "none"
  /\ releases' = [r \in Resources |-> 0]
  /\ scriptProcessor' = FALSE
  /\ nBlocks' = 0
  /\ sent' = 0
  /\ nextStartTime' = 0
  /\ clock' = 0
  /\ decoding' = {}
  /\ scheduled' = <<>>
  /\ sources' = {}
  /\ nAudio' = 0
  /\ transcript' = <<>>
  /\ currentInputTrans' = <<>>
  /\ currentOutputTrans' = <<>>
  /\ deltasIn' = <<>>
  /\ deltasOut' = <<>>
  /\ flushedIn' = 0
  /\ flushedOut' = 0
  /\ turns' = 0
  /\ nMsgs' = 0
  /\ sessionEnd' = <<>>
  /\ analysed' = <<>>

\* One handler's state updates and the render that follows.
AppStep(st, mode, sv, cause) ==
  /\ appState' = st
  /\ inputMode' = mode
  /\ saved' = sv
  /\ IF st = "NEW_ENTRY" /\ mode = "live" /\ ~Mounted
     THEN SessionReset /\ startCause' = cause
     ELSE UNCHANGED <<sessionVars, startCause>>

\* part_000 lines 262-267: the "+" button of the home view.
openNewEntry ==
  /\ appState = "HOME"
  /\ AppStep("NEW_ENTRY", "text", saved, "openNewEntry")

\* part_000 line 293: the back button of the new-entry view.
backHome ==
  /\ appState = "NEW_ENTRY" /\ ~Mounted
  /\ AppStep("HOME", inputMode, saved, "backHome")

\* part_000 lines 316, 326 and 115-122: the Text, Voice and Chat buttons.
setInputMode(mode) ==
  /\ appState = "NEW_ENTRY" /\ ~Mounted
  /\ AppStep(appState, mode, saved, "setInputMode")

\* part_000 lines 124-127 and 346: the Live button.
startLiveSession ==
  /\ appState = "NEW_ENTRY" /\ ~Mounted
  /\ AppStep(appState, "live", saved, "startLiveSession")

\* part_000 lines 69-72, 92-94, 158-165: a text, a recording or a chat is
\* submitted for analysis.
submit ==
  /\ appState = "NEW_ENTRY" /\ ~Mounted
  /\ AppStep("ANALYZING", inputMode, saved, "submit")

\* part_000 lines 82, 104, 176: the analysis and the image are there.
analysisResolved ==
  /\ appState = "ANALYZING"
  /\ AppStep("RESULT", inputMode, saved, "analysisResolved")

\* part_000 lines 83-86, 105-108, 177-180: the analysis failed.
analysisRejected ==
  /\ appState = "ANALYZING"
  /\ AppStep("NEW_ENTRY", inputMode, saved, "analysisRejected")

\* part_000 lines 511-516: the Discard button of the result view.
discard ==
  /\ appState = "RESULT"
  /\ AppStep("NEW_ENTRY", inputMode, saved, "discard")

\* part_000 lines 186-205: saveCheckIn.
saveCheckIn ==
  /\ appState = "RESULT"
  /\ AppStep("HOME", inputMode, TRUE, "saveCheckIn")

\* part_000 lines 230-235: a saved check-in is opened.
openDetails ==
  /\ appState = "HOME" /\ saved
  /\ AppStep("DETAILS", inputMode, saved, "openDetails")

\* part_000 lines 536-541: the back button of the details view.
closeDetails ==
  /\ appState = "DETAILS"
  /\ AppStep("HOME", inputMode, saved, "closeDetails")

\* ------------------------------------------------------- specifications
\* The transport delivers one of the messages M, at most max in a session.
Deliver(M, max) == \E m \in M : nMsgs < max /\ onmessage(m)

\* Messages by what they carry.
TextMessages == {m \in Messages : m.audio = <<>>}
AudioMessages ==
  {m \in Messages : m.outputTranscription = <<>> /\ m.inputTranscription = <<>>}
ControlMessages == TextMessages \cap AudioMessages

Lifecycle ==
  \/ \E f \in StartFailures : startSession(f)
  \/ getUserMediaResolved
  \/ getUserMediaRejected
  \/ onopen
  \/ onclose
  \/ onerror
  \/ cancel("none")
  \/ handleFinish("none")

Devices ==
  \/ onaudioprocess
  \/ contextClosed

Playback ==
  \/ \E c \in decoding : decodeResolved(c)
  \/ \E id \in sources : ended(id)
  \/ tick

\* Everything.
Next ==
  \/ Lifecycle
  \/ Devices
  \/ Playback
  \/ Deliver(Messages, MaxMsgs)

Spec == Init /\ [][Next]_vars

\* The life cycle and the devices; messages carry at most a turn-complete marker.
NextLife ==
  \/ Lifecycle
  \/ Devices
  \/ Deliver(ControlMessages, MaxMsgs)

SpecLife == Init /\ [][NextLife]_vars

\* The transcript: the life cycle and the messages without audio.  The actions
\* left out change none of conn, isActive, status and the transcript variables.
NextText ==
  \/ Lifecycle
  \/ Deliver(TextMessages, MaxMsgs)

SpecText == Init /\ [][NextText]_vars

\* The playback: the life cycle, the messages without transcription, the
\* decodes, the sources and the clock.
NextPlay ==
  \/ Lifecycle
  \/ Playback
  \/ Deliver(AudioMessages, MaxMsgs)

SpecPlay == Init /\ [][NextPlay]_vars

\* The life cycle where a device statement of the cleanup may throw.
NextTeardown ==
  \/ NextLife
  \/ \E f \in CleanupFailures : cancel(f) \/ handleFinish(f)

SpecTeardown == Init /\ [][NextTeardown]_vars

\* The playback scheduling alone: a session that connects and receives
\* messages that carry an audio chunk and nothing else.
ChunkMessages == {m \in AudioMessages : m.audio # <<>> /\ ~m.turnComplete}

NextSched ==
  \/ startSession("none")
  \/ getUserMediaResolved
  \/ onopen
  \/ Playback
  \/ Deliver(ChunkMessages, MaxSchedMsgs)

SpecSched == Init /\ [][NextSched]_vars

\* The application: it opens on the home view with no LiveSession mounted; the
\* session's life cycle runs in whatever LiveSession is mounted.
InitApp ==
  /\ SessionInit
  /\ appState = "HOME"
  /\ inputMode = "text"
  /\ saved = FALSE
  /\ startCause = "none"

NextApp ==
  \/ openNewEntry
  \/ backHome
  \/ \E mode \in {"text", "voice", "interview"} : setInputMode(mode)
  \/ startLiveSession
  \/ submit
  \/ analysisResolved
  \/ analysisRejected
  \/ discard
  \/ saveCheckIn
  \/ openDetails
  \/ closeDetails
  \/ Lifecycle

SpecApp == InitApp /\ [][NextApp]_vars

\* ================================================================ claims
\* Helpers of the statements below (none of them models code).
RECURSIVE Concat(_)
Concat(texts) == IF texts = <<>> THEN <<>> ELSE texts[1] \o Concat(Tail(texts))

SegmentOf(role, text) == IF text # <<>> THEN <<[role |-> role, text |-> text]>> ELSE <<>>

\* The texts of the deltas of a role that no turn-complete has covered yet.
PendingIn == Concat(SubSeq(deltasIn, flushedIn + 1, Len(deltasIn)))
PendingOut == Concat(SubSeq(deltasOut, flushedOut + 1, Len(deltasOut)))

NoText == Concat(deltasIn) = <<>> /\ Concat(deltasOut) = <<>>

\* A string cut at its line breaks, the empty lines dropped.
RECURSIVE LinesOf(_, _)
LinesOf(str, cur) ==
  IF str = <<>> THEN (IF cur = <<>> THEN <<>> ELSE <<cur>>)
  ELSE IF str[1] = "\n"
       THEN (IF cur = <<>> THEN <<>> ELSE <<cur>>) \o LinesOf(Tail(str), <<>>)
       ELSE LinesOf(Tail(str), Append(cur, str[1]))

\* The text of a rendered line ("role", ": ", text...), and the texts of a role.
LineText(line) == SubSeq(line, 3, Len(line))
RECURSIVE TextOf(_, _)
TextOf(lines, role) ==
  IF lines = <<>> THEN <<>>
  ELSE (IF lines[1][1] = role THEN LineText(lines[1]) ELSE <<>>) \o TextOf(Tail(lines), role)

\* C1: the playback scheduler never schedules a buffer to start before the end
\* of the buffer scheduled before it, whatever the arrival times and the order
\* in which the pending decodes resume.
C1_NoOverlap ==
  \A i \in 1..(Len(scheduled) - 1) :
    scheduled[i + 1].start >= scheduled[i].start + scheduled[i].dur

\* Two buffers, decoded in the inverse of their arrival order, the first one
\* scheduled at a clamped (non-zero) start.
C1_Witness ==
  /\ Len(scheduled) >= 2
  /\ scheduled[1].id > scheduled[2].id
  /\ scheduled[1].start > 0

\* C2: after a cancel at any point after start, once nothing is pending any
\* more, the microphone stream, both audio contexts and the remote session
\* have each been released exactly once and none stays open.
C2_AllReleasedOnce ==
  (~isActive /\ sessionEnd = <<>> /\ pc = "done" /\ conn # "connecting") =>
    /\ (streamRef # "null" => streamRef = "stopped" /\ releases["mic"] = 1)
    /\ (inputAudioContext # "null" =>
          inputAudioContext \in {"closing", "closed"} /\ releases["inputContext"] = 1)
    /\ (outputAudioContext # "null" =>
          outputAudioContext \in {"closing", "closed"} /\ releases["outputContext"] = 1)
    /\ (sessionPromise = "resolved" => releases["session"] = 1)

\* C3: a turn-complete marker appends exactly one segment for each role whose
\* deltas since the last flush concatenate to a non-empty text, the user's
\* before the model's, each text the concatenation of those deltas in the order
\* received, and leaves both accumulators empty.
C3_TurnCompleteFlush ==
  [][turns' = turns + 1 =>
       /\ transcript' =
            transcript
              \o SegmentOf("user", Concat(SubSeq(deltasIn', flushedIn + 1, Len(deltasIn'))))
              \o SegmentOf("model", Concat(SubSeq(deltasOut', flushedOut + 1, Len(deltasOut'))))
       /\ currentInputTrans' = <<>>
       /\ currentOutputTrans' = <<>>]_vars

\* A turn flushed a user segment made of two deltas, then a model segment.
C3_Witness ==
  /\ turns >= 1
  /\ Len(transcript) = 2
  /\ transcript[1].role = "user"
  /\ transcript[2].role = "model"
  /\ Len(transcript[1].text) = 2
  /\ Len(deltasIn) = 2

\* C4: when there is any segment, finish returns exactly the newline-joined
\* "role: text" rendering of the finalized segments followed by the pending
\* user and model text, with no leading, trailing or doubled newline.
C4_ExactJoin ==
  LET all == transcript \o SegmentOf("user", currentInputTrans)
                        \o SegmentOf("model", currentOutputTrans)
  IN (sessionEnd # <<>> /\ all # <<>>) =>
       sessionEnd[1] = JoinLines([i \in 1..Len(all) |-> Render(all[i])])

\* C5: finish never returns an empty string; it returns the sentinel exactly
\* when no transcription text was received, and what it returns reaches the
\* analysis (finishInterview's blank check never drops it).
C5_NeverEmpty ==
  sessionEnd # <<>> =>
    /\ sessionEnd[1] # <<>>
    /\ NoText <=> sessionEnd[1] = Sentinel
    /\ analysed = sessionEnd

\* finish after a turn-complete and only empty deltas returned the sentinel.
C5_Witness ==
  /\ sessionEnd = <<Sentinel>>
  /\ turns >= 1
  /\ Len(deltasIn) >= 1
  /\ Len(deltasOut) >= 1

\* C6: every delta text handled appears in the transcript finish returns, in
\* the order received: the finalized segments first, then the pending user
\* text, then the pending model text.
C6_NothingLost ==
  (sessionEnd # <<>> /\ ~NoText) =>
    LET lines == LinesOf(sessionEnd[1], <<>>)
        n == Len(transcript)
        segs == transcript \o SegmentOf("user", PendingIn) \o SegmentOf("model", PendingOut)
    IN /\ TextOf(lines, "user") = Concat(deltasIn)
       /\ TextOf(lines, "model") = Concat(deltasOut)
       /\ Len(lines) = Len(segs)
       /\ \A i \in 1..Len(lines) : lines[i] = Render(segs[i])

\* finish with a finalized segment and pending text of both roles.
C6_Witness ==
  /\ sessionEnd # <<>>
  /\ Len(transcript) >= 1
  /\ currentInputTrans # <<>>
  /\ currentOutputTrans # <<>>

\* C7: the remote-speaking indicator is true exactly when the active-set of
\* playback sources is non-empty.
C7_SpeakingIffActive == isSpeaking <=> sources # {}

\* C8: the status is connected only after the microphone was acquired and the
\* handshake opened.
C8_ConnectedAfterBoth ==
  status = "connected" => streamRef # "null" /\ sessionPromise = "resolved"

\* The session is connected, with a live microphone and an open transport.
C8_Witness == status = "connected" /\ streamRef = "live" /\ conn = "open"

\* C9: once the status is error, no step changes it.
C9_ErrorTerminal == [][status = "error" => status' = "error"]_vars

\* The status is error and the transport has closed after the error.
C9_Witness == status = "error" /\ conn = "closed" /\ sessionPromise = "resolved"

\* C10: a transport that closed while the session is active, with neither
\* cancel nor finish called, leaves the status error.
C10_CloseIsError == (conn = "closed" /\ isActive) => status = "error"
\* C11: the status becomes disconnected when the caller invokes cancel or
\* finish (the teardown moves it there at once), and only then.
C11_DisconnectedIffTornDown == status = "disconnected" <=> ~isActive
\* C12: the teardown performs every release step even when an earlier step
\* throws: once it has run, each audio context that was created has been
\* closed (the steps that follow the microphone's and the session's).
C12_EveryStepRuns ==
  ~isActive =>
    /\ inputAudioContext # "null" => releases["inputContext"] >= 1
    /\ outputAudioContext # "null" => releases["outputContext"] >= 1
\* C13: a malformed audio chunk is dropped with no observable state change:
\* the step that handles one (a chunk is counted, no decode starts, no turn
\* completes) leaves the status, the cursor, the active set and isSpeaking
\* as they were.
C13_BadChunkNoChange ==
  [][(nAudio' = nAudio + 1 /\ decoding' = decoding /\ turns' = turns)
       => UNCHANGED <<status, nextStartTime, sources, isSpeaking>>]_vars
\* C14: after cancel or finish no audio frame is sent: once the teardown has
\* run, no step hands a frame to the session.
C14_NoFrameAfterTeardown == [][~isActive => sent' = sent]_vars

\* A capture block was delivered after the teardown and was not sent.
C14_Witness == ~isActive /\ nBlocks > sent
\* After a finish: the transcript went to the analysis once, and the teardown ran.
C15_Finished ==
  sessionEnd # <<>> =>
    /\ analysed = sessionEnd
    /\ ~isActive
    /\ streamRef = "stopped"
    /\ inputAudioContext \in {"closing", "closed"}
    /\ outputAudioContext \in {"closing", "closed"}
    /\ conn \in {"closing", "failed", "closed"}
\* After a cancel: nothing went to the analysis, and nothing stays open.
C15_Cancelled ==
  (~isActive /\ sessionEnd = <<>>) =>
    /\ analysed = <<>>
    /\ (pc = "done" /\ conn # "connecting") =>
         /\ streamRef # "live"
         /\ inputAudioContext # "open"
         /\ outputAudioContext # "open"
         /\ conn # "open"
\* C15: every finish hands the assembled transcript to the analysis exactly
\* once and is followed by the teardown (microphone released, both audio
\* contexts closed, remote session closed); a cancel performs the same
\* teardown, seen once nothing is pending any more, and hands no transcript
\* to the analysis.
C15_FinishAndCancel == C15_Finished /\ C15_Cancelled
\* C16: each buffer is scheduled at max(nextStartTime, clock) with the clock
\* read at the moment the buffer is scheduled, so no buffer is scheduled to
\* start earlier than the clock at its scheduling instant.
C16_StartAtLeastClock ==
  [][Len(scheduled') = Len(scheduled) + 1 =>
       /\ scheduled'[Len(scheduled')].start = ClampStart(nextStartTime, clock)
       /\ scheduled'[Len(scheduled')].start >= clock']_vars
\* C17: playback is gapless when chunks arrive faster than real time: whenever
\* a chunk arrived while the clock was not past the cursor, its scheduled
\* start equals exactly the end (start + duration) of the previously scheduled
\* buffer; and the cursor nextStartTime never decreases.
C17_Gapless ==
  [][/\ nextStartTime' >= nextStartTime
     /\ \A c \in decoding \ decoding' :
          (c.onTime /\ scheduled # <<>>) =>
            scheduled'[Len(scheduled')].start =
              scheduled[Len(scheduled)].start + scheduled[Len(scheduled)].dur]_vars
\* C18: the audio plumbing is active only in status connected: in any other
\* status no captured block is handed to the session and no inbound chunk is
\* scheduled for playback.
C18_PlumbingOnlyConnected ==
  [][status # "connected" => (sent' = sent /\ scheduled' = scheduled)]_vars
C20_NoSourceAfterTeardown == ~isActive => sources = {}
\* The microphone acquisition failed: startSession got as far as getUserMedia
\* (both contexts exist), has left it, and no stream was ever stored.
MicFailed == pc = "done" /\ outputAudioContext # "null" /\ streamRef = "null"

\* C21: if the microphone acquisition fails, the status becomes error, no
\* connection to the remote endpoint is attempted, and the status never
\* becomes connected.
C21_MicFailureIsError ==
  MicFailed => (status = "error" /\ sessionPromise = "null" /\ conn = "none")

\* The acquisition failed, also in a session that was cancelled meanwhile.
C21_Witness == MicFailed /\ ~isActive
\* C22: a transcription delta only appends its text to the accumulator of its
\* own role: a step that handles no turn-complete marker extends each role's
\* accumulator by exactly the deltas of that role it handled (so by nothing
\* when it handled none of that role) and leaves the finalized segments
\* unchanged; the finalized list changes only when a marker is handled.
C22_DeltaOwnRoleOnly ==
  [][/\ transcript' # transcript => turns' = turns + 1
     /\ turns' = turns =>
          /\ currentInputTrans' =
               currentInputTrans \o Concat(SubSeq(deltasIn', Len(deltasIn) + 1, Len(deltasIn')))
          /\ currentOutputTrans' =
               currentOutputTrans \o Concat(SubSeq(deltasOut', Len(deltasOut) + 1, Len(deltasOut')))
          /\ transcript' = transcript]_vars

\* A model delta was appended after a turn left a finalized user segment, and
\* the user's accumulator stayed empty.
C22_Witness ==
  /\ turns = 1
  /\ Len(transcript) = 1
  /\ transcript[1].role = "user"
  /\ currentOutputTrans # <<>>
  /\ currentInputTrans = <<>>
\* C23: once the teardown has run, no playback source is created, started or
\* added to the active set and the cursor no longer advances, also for a chunk
\* whose decode was in progress when the teardown ran.
C23_NoSchedulingAfterTeardown ==
  [][~isActive =>
       /\ scheduled' = scheduled
       /\ sources' \subseteq sources
       /\ nextStartTime' = nextStartTime]_vars
\* C24: audio chunks are scheduled in the order they were received: if chunk A
\* arrived before chunk B then A starts before B, whatever the order in which
\* the pending decodes resume.
C24_ArrivalOrder ==
  \A i, j \in 1..Len(scheduled) :
    scheduled[i].id < scheduled[j].id => scheduled[i].start < scheduled[j].start
\* C25: a live session (microphone acquisition plus remote connection) is
\* started only as the direct result of the user selecting Live: whenever the
\* mounted LiveSession has started its session, it was the Live button that
\* mounted it, and not discarding a result, a failed analysis, saving a
\* check-in or opening a new entry.
C25_StartedOnlyByLive == pc # "init" => startCause = "startLiveSession"
====
